---- MODULE Spec2Model ----
(***************************************************************************)
(* The wire codec of nanocurrency-protocol (src/lib.rs): Encoder::encode,  *)
(* Decoder::decode, read_block, write_block, block_type_num and            *)
(* network_magic_byte, over byte buffers.                                  *)
(*                                                                         *)
(* A buffer is a sequence of bytes (0..255).  A u16 is an integer.  A u64  *)
(* is a tuple of four 16-bit limbs and a u128 a tuple of eight, least      *)
(* significant limb first, so that every value of the full width is        *)
(* representable and neither byte order is the representation itself.      *)
(***************************************************************************)
EXTENDS Integers, Naturals, Sequences, FiniteSets, TLC

VARIABLES
    net,      \* the Network of the Encoder's item (msg.0)
    msg,      \* the Message of the Encoder's item (msg.1)
    buf,      \* the BytesMut: encode's output, the datagram, decode's input
    out,      \* the outcome of the decode call
    pc,       \* "start" -> "wire" -> "decoded"
    tampers   \* what the wire did to the datagram: the positions it
              \* overwrote, in increasing order, then -1 for a truncation
              \* or -2 for bytes appended

vars == <<net, msg, buf, out, pc, tampers>>

----------------------------------------------------------------------------
(* Program constants *)

NET_VERSION == 16
NET_VERSION_MAX == 16
NET_VERSION_MIN == 1

NODE_ID_HANDSHAKE_QUERY_FLAG == 1
NODE_ID_HANDSHAKE_RESPONSE_FLAG == 2

----------------------------------------------------------------------------
(* Bounds of the model *)

\* How many bytes of a datagram the wire may overwrite.
MaxTamper == 2
\* Truncate keeps at most this many bytes ...
MaxKeep == 44
\* ... or drops at most this many from the end.
MaxDrop == 19

----------------------------------------------------------------------------
(* Bits and bytes *)

RECURSIVE BitAnd(_, _)
BitAnd(a, b) ==
    IF a = 0 \/ b = 0 THEN 0
    ELSE (a % 2) * (b % 2) + 2 * BitAnd(a \div 2, b \div 2)

RECURSIVE BitOr(_, _)
BitOr(a, b) ==
    IF a = 0 THEN b
    ELSE IF b = 0 THEN a
    ELSE (IF a % 2 = 1 \/ b % 2 = 1 THEN 1 ELSE 0) + 2 * BitOr(a \div 2, b \div 2)

RECURSIVE Shl(_, _)
Shl(a, n) == IF n = 0 THEN a ELSE Shl(2 * a, n - 1)

RECURSIVE Shr(_, _)
Shr(a, n) == IF n = 0 THEN a ELSE Shr(a \div 2, n - 1)

\* `as u8` of a u16
AsU8(a) == a % 256

\* The byte of significance k (0 = least) of a value held as 16-bit limbs.
LimbByte(w, k) ==
    IF k % 2 = 0 THEN w[k \div 2 + 1] % 256 ELSE w[k \div 2 + 1] \div 256

put_u16_le(n) == <<n % 256, (n \div 256) % 256>>

put_u64_le(w) == [i \in 1..8 |-> LimbByte(w, i - 1)]

put_u64_be(w) == [i \in 1..8 |-> LimbByte(w, 8 - i)]

\* Mutant of put_u128_be: the balance written with put_u128_le.
put_u128_le(w) == [i \in 1..16 |-> LimbByte(w, i - 1)]

put_u128_be(w) == [i \in 1..16 |-> LimbByte(w, 16 - i)]

read_u16_le(b) == b[1] + 256 * b[2]

read_u64_le(b) == [j \in 1..4 |-> b[2 * j - 1] + 256 * b[2 * j]]

read_u64_be(b) == [j \in 1..4 |-> b[10 - 2 * j] + 256 * b[9 - 2 * j]]

read_u128_be(b) == [j \in 1..8 |-> b[18 - 2 * j] + 256 * b[17 - 2 * j]]

\* A run of read_exact calls, each with `?`, for fields of the given sizes, from cursor
\* position p: the fields, or the position of the read that came up short.
RECURSIVE read_fields(_, _, _)
read_fields(b, p, sizes) ==
    IF sizes = <<>> THEN [ok |-> TRUE, pos |-> p, vals |-> <<>>]
    ELSE IF p + Head(sizes) > Len(b) THEN [ok |-> FALSE, pos |-> p, vals |-> <<>>]
    ELSE LET r == read_fields(b, p + Head(sizes), Tail(sizes))
         IN  [ok |-> r.ok, pos |-> r.pos,
              vals |-> <<SubSeq(b, p + 1, p + Head(sizes))>> \o r.vals]

----------------------------------------------------------------------------
(* The companion library's fallible constructors *)

\* Signature::from_bytes on 64 bytes: the structural check refuses a last
\* byte with any of its three high bits set.
SignatureFromBytesOk(b) == b[64] < 32

\* PublicKey::from_bytes on 32 bytes: some strings are no curve point.  The
\* model fixes a predicate that accepts some strings and refuses others.
PublicKeyFromBytesOk(b) == b[1] % 2 = 0

----------------------------------------------------------------------------
(* Errors and outcomes *)

UnexpectedEof == "failed to fill whole buffer"
InvalidMagic == "invalid magic number"
InvalidNetwork == "invalid network indicator"
UnsupportedVersion == "unsupported peer version"
UnrecognizedMessageType == "unrecognized message type"
BootstrapOverUnsupportedTransport == "bootstrap message sent over UDP"
UnrecognizedBlockType == "unrecognized block type"
MalformedSignature == "bad signature"
MalformedPublicKey == "bad pubkey"

NoHeader == [network |-> "None"]
NoMessage == [type |-> "None"]
NoBlock == [inner |-> [type |-> "None"]]

\* decode has not been called
NoResult ==
    [kind |-> "none", err |-> "", pos |-> 0, header |-> NoHeader, message |-> NoMessage]
\* return Err(..), with the cursor at p
Err(e, p) ==
    [kind |-> "err", err |-> e, pos |-> p, header |-> NoHeader, message |-> NoMessage]
\* a panic unwinding out of decode
Panic(p) ==
    [kind |-> "panic", err |-> "called Result::unwrap on an Err value",
     pos |-> p, header |-> NoHeader, message |-> NoMessage]
\* return Ok(Some((header, message)))
Ok(h, m, p) ==
    [kind |-> "ok", err |-> "", pos |-> p, header |-> h, message |-> m]

BlockErr(e, p) == [ok |-> FALSE, err |-> e, pos |-> p, block |-> NoBlock]
BlockOk(blk, p) == [ok |-> TRUE, err |-> "", pos |-> p, block |-> blk]

----------------------------------------------------------------------------
(* NanoCurrencyCodec *)

\* The arms of read_block's match: the sizes of the fields read, in order.
BlockFieldSizes(block_ty) ==
    CASE block_ty = 2 -> <<32, 32, 16>>
      [] block_ty = 3 -> <<32, 32>>
      [] block_ty = 4 -> <<32, 32, 32>>
      [] block_ty = 5 -> <<32, 32>>
      [] block_ty = 6 -> <<32, 32, 32, 16, 32>>

\* The arms of read_block's match: the BlockInner built from the fields read.
BlockInnerOf(block_ty, v) ==
    CASE block_ty = 2 ->
           [type |-> "Send", previous |-> v[1], destination |-> v[2],
            balance |-> read_u128_be(v[3])]
      [] block_ty = 3 ->
           [type |-> "Receive", previous |-> v[1], source |-> v[2]]
      [] block_ty = 4 ->
           [type |-> "Open", source |-> v[1], representative |-> v[2],
            account |-> v[3]]
      [] block_ty = 5 ->
           [type |-> "Change", previous |-> v[1], representative |-> v[2]]
      [] block_ty = 6 ->
           [type |-> "State", account |-> v[1], previous |-> v[2],
            representative |-> v[3], balance |-> read_u128_be(v[4]),
            link |-> v[5]]

\* read_block(cursor, block_ty), the cursor over b at position p.
read_block(b, p, block_ty) ==
    IF block_ty \notin 2..6 THEN BlockErr(UnrecognizedBlockType, p)
    ELSE
    LET f == read_fields(b, p, BlockFieldSizes(block_ty)) IN
    IF ~f.ok THEN BlockErr(UnexpectedEof, f.pos)
    ELSE
    LET inner == BlockInnerOf(block_ty, f.vals)
        s == read_fields(b, f.pos, <<64>>)
    IN
    IF ~s.ok THEN BlockErr(UnexpectedEof, s.pos)
    ELSE IF ~SignatureFromBytesOk(s.vals[1]) THEN BlockErr(MalformedSignature, s.pos)
    ELSE
    LET w == read_fields(b, s.pos, <<8>>) IN
    IF ~w.ok THEN BlockErr(UnexpectedEof, w.pos)
    ELSE
    LET work == IF block_ty >= 6 THEN read_u64_be(w.vals[1])
                ELSE read_u64_le(w.vals[1])
    IN  BlockOk([header |-> [signature |-> s.vals[1], work |-> work],
                 inner |-> inner], w.pos)

\* Mutant of block_type_num: the numbers of Open and Change exchanged.
block_type_num_swapped(block) ==
    CASE block.inner.type = "Send" -> 2
      [] block.inner.type = "Receive" -> 3
      [] block.inner.type = "Open" -> 5
      [] block.inner.type = "Change" -> 4
      [] block.inner.type = "State" -> 6

block_type_num(block) ==
    CASE block.inner.type = "Send" -> 2
      [] block.inner.type = "Receive" -> 3
      [] block.inner.type = "Open" -> 4
      [] block.inner.type = "Change" -> 5
      [] block.inner.type = "State" -> 6

\* The bytes write_block appends for the block's variant.
write_inner(inner) ==
    CASE inner.type = "Send" ->
           inner.previous \o inner.destination \o put_u128_be(inner.balance)
      [] inner.type = "Receive" ->
           inner.previous \o inner.source
      [] inner.type = "Open" ->
           inner.source \o inner.representative \o inner.account
      [] inner.type = "Change" ->
           inner.previous \o inner.representative
      [] inner.type = "State" ->
           inner.account \o inner.previous \o inner.representative
             \o put_u128_be(inner.balance) \o inner.link

\* Mutant of write_block: work_big_endian is never set.
write_block_work_le(block) ==
    write_inner(block.inner) \o block.header.signature \o put_u64_le(block.header.work)

\* The bytes write_block(buf, block) appends to buf.
write_block(block) ==
    LET work_big_endian == (block.inner.type = "State") IN
    write_inner(block.inner)
      \o block.header.signature
      \o (IF work_big_endian THEN put_u64_be(block.header.work)
          ELSE put_u64_le(block.header.work))

network_magic_byte(network) ==
    CASE network = "Test" -> 65
      [] network = "Beta" -> 66
      [] network = "Live" -> 67

----------------------------------------------------------------------------
(* Decoder::decode *)

SocketAddrV6(ip, port, flowinfo, scope_id) ==
    [ip |-> ip, port |-> port, flowinfo |-> flowinfo, scope_id |-> scope_id]

zero_v6_addr == SocketAddrV6([i \in 1..16 |-> 0], 0, 0, 0)

\* Mutant of keepalive_peers: a peer whose address was read and whose port
\* was not is stored, with port 0.
RECURSIVE keepalive_peers_partial(_, _, _)
keepalive_peers_partial(b, p, i) ==
    IF i > 8 THEN [peers |-> <<>>, pos |-> p]
    ELSE IF p + 16 > Len(b) THEN
        [peers |-> [j \in 1..(9 - i) |-> zero_v6_addr], pos |-> Len(b)]
    ELSE IF p + 18 > Len(b) THEN
        [peers |-> <<SocketAddrV6(SubSeq(b, p + 1, p + 16), 0, 0, 0)>>
                     \o [j \in 1..(8 - i) |-> zero_v6_addr],
         pos |-> p + 16]
    ELSE
        LET rest == keepalive_peers_partial(b, p + 18, i + 1)
            peer == SocketAddrV6(SubSeq(b, p + 1, p + 16),
                                 read_u16_le(SubSeq(b, p + 17, p + 18)), 0, 0)
        IN  [peers |-> <<peer>> \o rest.peers, pos |-> rest.pos]

\* The keepalive closure from peer i on, the cursor at p: sixteen read_u8
\* and one read_u16 per peer; the first short read ends the loop and leaves
\* this peer and the later ones as they were initialised.
RECURSIVE keepalive_peers(_, _, _)
keepalive_peers(b, p, i) ==
    IF i > 8 THEN [peers |-> <<>>, pos |-> p]
    ELSE IF p + 16 > Len(b) THEN
        [peers |-> [j \in 1..(9 - i) |-> zero_v6_addr], pos |-> Len(b)]
    ELSE IF p + 18 > Len(b) THEN
        [peers |-> [j \in 1..(9 - i) |-> zero_v6_addr], pos |-> p + 16]
    ELSE
        LET rest == keepalive_peers(b, p + 18, i + 1)
            peer == SocketAddrV6(SubSeq(b, p + 1, p + 16),
                                 read_u16_le(SubSeq(b, p + 17, p + 18)), 0, 0)
        IN  [peers |-> <<peer>> \o rest.peers, pos |-> rest.pos]

\* The Publish and ConfirmReq arms.
decode_block_message(b, header, name) ==
    LET ty == Shr(BitAnd(header.extensions, 3840), 8)
        r == read_block(b, 8, AsU8(ty))
    IN  IF ~r.ok THEN Err(r.err, r.pos)
        ELSE Ok(header, [type |-> name, block |-> r.block], r.pos)

\* The ConfirmAck arm.
decode_confirm_ack(b, header) ==
    LET ty == Shr(BitAnd(header.extensions, 3840), 8)
        f == read_fields(b, 8, <<32, 64>>)
    IN
    IF ~f.ok THEN Err(UnexpectedEof, f.pos)
    ELSE IF ~SignatureFromBytesOk(f.vals[2]) THEN Panic(f.pos)
    ELSE
    LET q == read_fields(b, f.pos, <<8>>) IN
    IF ~q.ok THEN Err(UnexpectedEof, q.pos)
    ELSE
    LET r == read_block(b, q.pos, AsU8(ty)) IN
    IF ~r.ok THEN Err(r.err, r.pos)
    ELSE Ok(header,
            [type |-> "ConfirmAck",
             vote |-> [account |-> f.vals[1], signature |-> f.vals[2],
                       sequence |-> read_u64_le(q.vals[1]), block |-> r.block]],
            r.pos)

\* The NodeIdHandshake arm.  An Option is <<>> (None) or <<x>> (Some(x)).
decode_node_id_handshake(b, header) ==
    LET hasq == BitAnd(header.extensions, NODE_ID_HANDSHAKE_QUERY_FLAG) /= 0
        hasr == BitAnd(header.extensions, NODE_ID_HANDSHAKE_RESPONSE_FLAG) /= 0
        q == read_fields(b, 8, IF hasq THEN <<32>> ELSE <<>>)
    IN
    IF ~q.ok THEN Err(UnexpectedEof, q.pos)
    ELSE
    LET query == IF hasq THEN <<q.vals[1]>> ELSE <<>> IN
    IF ~hasr THEN Ok(header, [type |-> "NodeIdHandshake", query |-> query,
                              response |-> <<>>], q.pos)
    ELSE
    LET k == read_fields(b, q.pos, <<32>>) IN
    IF ~k.ok THEN Err(UnexpectedEof, k.pos)
    ELSE IF ~PublicKeyFromBytesOk(k.vals[1]) THEN Err(MalformedPublicKey, k.pos)
    ELSE
    LET g == read_fields(b, k.pos, <<64>>) IN
    IF ~g.ok THEN Err(UnexpectedEof, g.pos)
    ELSE IF ~SignatureFromBytesOk(g.vals[1]) THEN Err(MalformedSignature, g.pos)
    ELSE Ok(header,
            [type |-> "NodeIdHandshake", query |-> query,
             response |-> <<[pubkey |-> k.vals[1], signature |-> g.vals[1]]>>],
            g.pos)

\* Mutant of decode_message: the bootstrap arm matches 6 | 7 only.
decode_message_without_8(b, header, msg_type) ==
    CASE msg_type = 2 ->
           LET k == keepalive_peers(b, 8, 1)
           IN  Ok(header, [type |-> "Keepalive", peers |-> k.peers], k.pos)
      [] msg_type = 3 -> decode_block_message(b, header, "Publish")
      [] msg_type = 4 -> decode_block_message(b, header, "ConfirmReq")
      [] msg_type = 5 -> decode_confirm_ack(b, header)
      [] msg_type = 10 -> decode_node_id_handshake(b, header)
      [] msg_type \in {6, 7} -> Err(BootstrapOverUnsupportedTransport, 8)
      [] OTHER -> Err(UnrecognizedMessageType, 8)

\* The match on msg_type.
decode_message(b, header, msg_type) ==
    CASE msg_type = 2 ->
           LET k == keepalive_peers(b, 8, 1)
           IN  Ok(header, [type |-> "Keepalive", peers |-> k.peers], k.pos)
      [] msg_type = 3 -> decode_block_message(b, header, "Publish")
      [] msg_type = 4 -> decode_block_message(b, header, "ConfirmReq")
      [] msg_type = 5 -> decode_confirm_ack(b, header)
      [] msg_type = 10 -> decode_node_id_handshake(b, header)
      [] msg_type \in {6, 7, 8} -> Err(BootstrapOverUnsupportedTransport, 8)
      [] OTHER -> Err(UnrecognizedMessageType, 8)

\* Mutant of version_unsupported: the comparisons are not strict.
version_unsupported_inclusive(version_min, version_max) ==
    version_min >= NET_VERSION_MAX \/ version_max <= NET_VERSION_MIN

\* The version test of decode: TRUE when the header is refused.
version_unsupported(version_min, version_max) ==
    version_min > NET_VERSION_MAX \/ version_max < NET_VERSION_MIN

\* Mutant of decode: both leading bytes are read, and the network byte is
\* matched, before the magic byte is compared.
decode_network_first(b) ==
    IF Len(b) < 1 THEN Err(UnexpectedEof, 0)
    ELSE IF Len(b) < 2 THEN Err(UnexpectedEof, 1)
    ELSE IF b[2] \notin {65, 66, 67} THEN Err(InvalidNetwork, 2)
    ELSE IF b[1] /= 82 THEN Err(InvalidMagic, 2)
    ELSE
    LET network == CASE b[2] = 65 -> "Test" [] b[2] = 66 -> "Beta" [] b[2] = 67 -> "Live"
        h == read_fields(b, 2, <<1, 1, 1, 1, 2>>)
    IN
    IF ~h.ok THEN Err(UnexpectedEof, h.pos)
    ELSE IF version_unsupported(h.vals[3][1], h.vals[1][1]) THEN Err(UnsupportedVersion, 8)
    ELSE decode_message(b,
                        [network |-> network, version_max |-> h.vals[1][1],
                         version |-> h.vals[2][1], version_min |-> h.vals[3][1],
                         extensions |-> read_u16_le(h.vals[5])],
                        h.vals[4][1])

\* decode(buf): the outcome of the call on the buffer b.
decode(b) ==
    IF Len(b) < 1 THEN Err(UnexpectedEof, 0)
    ELSE IF b[1] /= 82 THEN Err(InvalidMagic, 1)
    ELSE IF Len(b) < 2 THEN Err(UnexpectedEof, 1)
    ELSE IF b[2] \notin {65, 66, 67} THEN Err(InvalidNetwork, 2)
    ELSE
    LET network == CASE b[2] = 65 -> "Test" [] b[2] = 66 -> "Beta" [] b[2] = 67 -> "Live"
        h == read_fields(b, 2, <<1, 1, 1, 1, 2>>)
    IN
    IF ~h.ok THEN Err(UnexpectedEof, h.pos)
    ELSE
    LET version_max == h.vals[1][1]
        version == h.vals[2][1]
        version_min == h.vals[3][1]
        msg_type == h.vals[4][1]
        extensions == read_u16_le(h.vals[5])
    IN
    IF version_unsupported(version_min, version_max) THEN Err(UnsupportedVersion, 8)
    ELSE decode_message(b,
                        [network |-> network, version_max |-> version_max,
                         version |-> version, version_min |-> version_min,
                         extensions |-> extensions],
                        msg_type)

----------------------------------------------------------------------------
(* Encoder::encode *)

\* The extensions field of a block-bearing message.
block_extensions(block) == Shl(BitAnd(block_type_num(block), 15), 8)

\* Mutant of handshake_flags: the response flag follows the query.
handshake_flags_tied(query, response) ==
    LET f1 == IF query /= <<>> THEN BitOr(0, NODE_ID_HANDSHAKE_QUERY_FLAG) ELSE 0
    IN  IF query /= <<>> THEN BitOr(f1, NODE_ID_HANDSHAKE_RESPONSE_FLAG) ELSE f1

\* The flags of a NodeIdHandshake.
handshake_flags(query, response) ==
    LET f1 == IF query /= <<>> THEN BitOr(0, NODE_ID_HANDSHAKE_QUERY_FLAG) ELSE 0
    IN  IF response /= <<>> THEN BitOr(f1, NODE_ID_HANDSHAKE_RESPONSE_FLAG) ELSE f1

RECURSIVE keepalive_bytes(_)
keepalive_bytes(peers) ==
    IF peers = <<>> THEN <<>>
    ELSE Head(peers).ip \o put_u16_le(Head(peers).port) \o keepalive_bytes(Tail(peers))

\* The message type byte, the extensions and the body that encode's match
\* on msg.1 writes.
encode_message(m) ==
    CASE m.type = "Keepalive" ->
           <<2>> \o <<0, 0>> \o keepalive_bytes(m.peers)
      [] m.type = "Publish" ->
           <<3>> \o put_u16_le(block_extensions(m.block)) \o write_block(m.block)
      [] m.type = "ConfirmReq" ->
           <<4>> \o put_u16_le(block_extensions(m.block)) \o write_block(m.block)
      [] m.type = "ConfirmAck" ->
           <<5>> \o put_u16_le(block_extensions(m.vote.block))
             \o m.vote.account \o m.vote.signature \o put_u64_le(m.vote.sequence)
             \o write_block(m.vote.block)
      [] m.type = "NodeIdHandshake" ->
           <<10>> \o put_u16_le(handshake_flags(m.query, m.response))
             \o (IF m.query /= <<>> THEN m.query[1] ELSE <<>>)
             \o (IF m.response /= <<>>
                 THEN m.response[1].pubkey \o m.response[1].signature ELSE <<>>)

\* The bytes encode((network, m), buf) appends to buf.
encode(network, m) ==
    <<82, network_magic_byte(network), NET_VERSION_MAX, NET_VERSION, NET_VERSION_MIN>>
      \o encode_message(m)

----------------------------------------------------------------------------
(* The values the model draws from *)

Networks == {"Test", "Beta", "Live"}

\* 32 bytes of an Account, a BlockHash, a link or a handshake query
Bytes32(s) == [i \in 1..32 |-> (s + i) % 256]

\* A Signature: 64 bytes that Signature::from_bytes accepted
SomeSignature(s) == [i \in 1..64 |-> IF i = 64 THEN s % 32 ELSE (s + 3 * i) % 256]

\* A PublicKey: 32 bytes that PublicKey::from_bytes accepted
SomePublicKey(s) == [i \in 1..32 |-> (2 * (s + i)) % 256]

\* u64 values: 1 and 0x0807060504030201
WorkValues == {<<1, 0, 0, 0>>, <<513, 1027, 1541, 2055>>}

\* u128 values: 1 and 0x1f1e1d1c1b1a19181716151413121110
BalanceOf(work) ==
    IF work = <<1, 0, 0, 0>> THEN <<1, 0, 0, 0, 0, 0, 0, 0>>
    ELSE <<4368, 4882, 5396, 5910, 6424, 6938, 7452, 7966>>

BlockTypes == {"Send", "Receive", "Open", "Change", "State"}

SomeInner(ty, work) ==
    CASE ty = "Send" ->
           [type |-> "Send", previous |-> Bytes32(16), destination |-> Bytes32(48),
            balance |-> BalanceOf(work)]
      [] ty = "Receive" ->
           [type |-> "Receive", previous |-> [i \in 1..32 |-> 0],
            source |-> [i \in 1..32 |-> 170]]
      [] ty = "Open" ->
           [type |-> "Open", source |-> Bytes32(80), representative |-> Bytes32(112),
            account |-> Bytes32(144)]
      [] ty = "Change" ->
           [type |-> "Change", previous |-> Bytes32(176),
            representative |-> Bytes32(208)]
      [] ty = "State" ->
           [type |-> "State", account |-> Bytes32(7), previous |-> Bytes32(39),
            representative |-> Bytes32(71), balance |-> BalanceOf(work),
            link |-> Bytes32(103)]

SomeBlock(ty, work) ==
    [header |-> [signature |-> IF ty = "Receive" THEN [i \in 1..64 |-> 0]
                               ELSE SomeSignature(5),
                 work |-> work],
     inner |-> SomeInner(ty, work)]

Blocks == {SomeBlock(ty, work) : ty \in BlockTypes, work \in WorkValues}

SomePeer(i) == SocketAddrV6([j \in 1..16 |-> (16 * i + j) % 256], 7075 + 257 * i, 0, 0)

PeerLists ==
    { [i \in 1..8 |-> zero_v6_addr],
      [i \in 1..8 |-> SomePeer(i)],
      [i \in 1..8 |-> IF i = 2 THEN SocketAddrV6(SomePeer(i).ip, SomePeer(i).port, 7, 0)
                      ELSE IF i = 5 THEN SocketAddrV6(SomePeer(i).ip, SomePeer(i).port, 0, 3)
                      ELSE SomePeer(i)] }

Queries == {<<>>, <<Bytes32(33)>>}

Responses == {<<>>, <<[pubkey |-> SomePublicKey(9), signature |-> SomeSignature(77)]>>}

Messages ==
    {[type |-> "Keepalive", peers |-> ps] : ps \in PeerLists}
      \cup {[type |-> "Publish", block |-> blk] : blk \in Blocks}
      \cup {[type |-> "ConfirmReq", block |-> SomeBlock(ty, <<513, 1027, 1541, 2055>>)] :
              ty \in BlockTypes}
      \cup {[type |-> "ConfirmAck",
             vote |-> [account |-> Bytes32(200), signature |-> SomeSignature(131),
                       sequence |-> <<258, 772, 0, 1>>,
                       block |-> SomeBlock(ty, <<1, 0, 0, 0>>)]] : ty \in BlockTypes}
      \cup {[type |-> "NodeIdHandshake", query |-> q, response |-> r] :
              q \in Queries, r \in Responses}

\* The positions, in a datagram of n bytes that carries m, of the last byte
\* of each signature.
SignatureEnds(m, n) ==
    CASE m.type \in {"Publish", "ConfirmReq"} -> {n - 8}
      [] m.type = "ConfirmAck" -> {104, n - 8}
      [] m.type = "NodeIdHandshake" -> IF m.response /= <<>> THEN {n} ELSE {}
      [] OTHER -> {}

\* The bytes the wire may put at position p of the header.
HeaderValues(p) ==
    CASE p = 1 -> {88}
      [] p = 2 -> {68}
      [] p = 3 -> {0, 1, 3, 255}
      [] p = 4 -> {0}
      [] p = 5 -> {5, 16, 17}
      [] p = 6 -> {2, 3, 5, 6, 7, 8, 9, 10}
      [] p = 7 -> {1, 2, 3, 252}
      [] p = 8 -> {1, 3, 6, 7, 22}

\* The bytes the wire may put at the end of a signature.
SignatureValues == {32, 255}

----------------------------------------------------------------------------
(* The state machine: one datagram from the encoder, over the wire, to the *)
(* decoder.                                                                *)

Init ==
    /\ net \in Networks
    /\ msg \in Messages
    /\ buf = <<>>
    /\ out = NoResult
    /\ pc = "start"
    /\ tampers = <<>>

\* The sender calls encode((net, msg), buf).
Encode ==
    /\ pc = "start"
    /\ buf' = buf \o encode(net, msg)
    /\ pc' = "wire"
    /\ UNCHANGED <<net, msg, out, tampers>>

\* The last thing the wire did: 0 for nothing yet.
LastTamper == IF tampers = <<>> THEN 0 ELSE tampers[Len(tampers)]

CanTamper ==
    /\ pc = "wire"
    /\ Len(tampers) < MaxTamper
    /\ LastTamper >= 0

\* The datagram did not come from this encoder as it is: one byte of it,
\* past those already overwritten, has another value.
Overwrite ==
    /\ CanTamper
    /\ \E p \in (1..8) \cup SignatureEnds(msg, Len(buf)) :
         /\ p <= Len(buf)
         /\ p > LastTamper
         /\ \E v \in (IF p <= 8 THEN HeaderValues(p) ELSE SignatureValues) :
              /\ v /= buf[p]
              /\ buf' = [buf EXCEPT ![p] = v]
         /\ tampers' = Append(tampers, p)
    /\ UNCHANGED <<net, msg, out, pc>>

\* The datagram is cut short: its first k bytes arrive.
Truncate ==
    /\ CanTamper
    /\ \E k \in (0..MaxKeep) \cup ((Len(buf) - MaxDrop)..(Len(buf) - 1)) :
         /\ k < Len(buf)
         /\ buf' = SubSeq(buf, 1, k)
    /\ tampers' = Append(tampers, -1)
    /\ UNCHANGED <<net, msg, out, pc>>

\* The buffer holds more than the one message: a byte follows it.
Trail ==
    /\ CanTamper
    /\ buf' = Append(buf, 0)
    /\ tampers' = Append(tampers, -2)
    /\ UNCHANGED <<net, msg, out, pc>>

\* The receiver calls decode(buf).  The cursor borrows buf: the call removes
\* nothing from it.
Decode ==
    /\ pc = "wire"
    /\ out' = decode(buf)
    /\ pc' = "decoded"
    /\ UNCHANGED <<net, msg, buf, tampers>>

Next == Encode \/ Overwrite \/ Truncate \/ Trail \/ Decode

Spec == Init /\ [][Next]_vars

----------------------------------------------------------------------------
(* What the claims speak of *)

\* decode has returned on a datagram that is encode's output as it was.
Untouched == pc = "decoded" /\ tampers = <<>>

\* The datagram b holds a whole header that passes decode's header checks.
\* Stated from the wire format: 'R', 'A'..'C', and a peer range that is
\* not wholly above 0x10 nor wholly below 0x01.
HeaderPasses(b) ==
    /\ Len(b) >= 8
    /\ b[1] = 82
    /\ b[2] \in 65..67
    /\ b[5] <= 16
    /\ b[3] >= 1

\* The header fields are the implementation's own.
OwnVersions(h) == h.version_max = 16 /\ h.version = 16 /\ h.version_min = 1

\* m with the flow-label and scope-id of every Keepalive address zeroed.
WithoutScope(m) ==
    IF m.type = "Keepalive"
    THEN [type |-> "Keepalive",
          peers |-> [i \in 1..8 |-> SocketAddrV6(m.peers[i].ip, m.peers[i].port, 0, 0)]]
    ELSE m

\* C1 as stated: decode(encode(n, m)) succeeds with the header of n and the
\* implementation's versions, and returns m equal in every field, the
\* flow-label and scope-id of Keepalive addresses included.
C1_RoundTripEveryField ==
    Untouched =>
        /\ out.kind = "ok"
        /\ out.header.network = net
        /\ OwnVersions(out.header)
        /\ out.message = msg

\* C1 as amended: decode(encode(n, m)) succeeds with the header of n and
\* the implementation's versions, and returns m in every field that is on
\* the wire: m itself, but for the flow-label and scope-id of the Keepalive
\* addresses, which come back zero.
C1_RoundTrip ==
    Untouched =>
        /\ out.kind = "ok"
        /\ out.header.network = net
        /\ OwnVersions(out.header)
        /\ out.message = WithoutScope(msg)

\* A Keepalive with a flow-label set has gone through encode and decode.
C1_Witness ==
    /\ Untouched
    /\ msg.type = "Keepalive"
    /\ \E i \in 1..8 : msg.peers[i].flowinfo /= 0
    /\ out.kind = "ok"
    /\ out.message /= msg
    /\ out.message = WithoutScope(msg)

\* C2: every decode ends by returning a message or an error, and a
\* ConfirmAck whose 64 vote-signature bytes are no valid signature ends in
\* the error MalformedSignature.
C2_EveryFailureReturned ==
    pc = "decoded" =>
        /\ out.kind \in {"ok", "err"}
        /\ (/\ HeaderPasses(buf)
            /\ buf[6] = 5
            /\ Len(buf) >= 104
            /\ ~SignatureFromBytesOk(SubSeq(buf, 41, 104)))
           => (out.kind = "err" /\ out.err = MalformedSignature)

\* The peer's range [lo, hi] and the local range [0x01, 0x10] share a version.
RangesOverlap(lo, hi) == \E v \in lo..hi : v \in 1..16

\* C3 as stated: with a valid magic, a known network and a whole header,
\* decode refuses with UnsupportedVersion exactly when the peer's range and
\* [0x01, 0x10] do not overlap.
C3_RejectsIffNoOverlap ==
    (pc = "decoded" /\ Len(buf) >= 8 /\ buf[1] = 82 /\ buf[2] \in 65..67) =>
        ((out.kind = "err" /\ out.err = UnsupportedVersion)
            <=> ~RangesOverlap(buf[5], buf[3]))

\* C3 as amended: for a peer range with version_min <= version_max, decode
\* refuses with UnsupportedVersion exactly when the range and [0x01, 0x10]
\* do not overlap; a range with version_min > version_max, which holds no
\* version at all, is refused only when version_min > 0x10 or
\* version_max < 0x01.
C3_VersionCheck ==
    (pc = "decoded" /\ Len(buf) >= 8 /\ buf[1] = 82 /\ buf[2] \in 65..67) =>
        LET refused == out.kind = "err" /\ out.err = UnsupportedVersion IN
        /\ buf[5] <= buf[3] => (refused <=> ~RangesOverlap(buf[5], buf[3]))
        /\ buf[5] > buf[3] => (refused <=> (buf[5] > 16 \/ buf[3] < 1))
        /\ buf[5] = 17 => refused
        /\ buf[3] = 0 => refused

\* A range that ends at the local minimum has passed the check, and a
\* range that only starts above the local maximum has been refused.
C3_Witness ==
    /\ pc = "decoded"
    /\ Len(buf) >= 8 /\ buf[1] = 82 /\ buf[2] \in 65..67
    /\ \/ buf[3] = 1 /\ buf[5] = 1 /\ out.kind = "ok"
       \/ buf[3] = 255 /\ buf[5] = 17 /\ out.err = UnsupportedVersion

\* C4: a decode call that returns a message removes the message's bytes
\* from the buffer, and they are all the bytes the buffer held.
C4_ConsumesTheBuffer ==
    [][(pc' = "decoded" /\ out'.kind = "ok") =>
           (out'.pos = Len(buf) /\ buf' = SubSeq(buf, out'.pos + 1, Len(buf)))]_vars

\* Entry i of the peer list of datagram b, when all its 18 bytes are there.
WirePeer(b, i) ==
    [ip |-> SubSeq(b, 18 * i - 9, 18 * i + 6),
     port |-> b[18 * i + 7] + 256 * b[18 * i + 8],
     flowinfo |-> 0, scope_id |-> 0]

AllZeroPeer ==
    [ip |-> <<0, 0, 0, 0, 0, 0, 0, 0, 0, 0, 0, 0, 0, 0, 0, 0>>,
     port |-> 0, flowinfo |-> 0, scope_id |-> 0]

\* C5: with a header that passes and message type 2, a body shorter than
\* 8 x 18 bytes decodes without error to a Keepalive whose entries are the
\* entries that are whole on the wire, in order, and all-zero from the first
\* entry that is cut off.
C5_KeepaliveLeniency ==
    (pc = "decoded" /\ HeaderPasses(buf) /\ buf[6] = 2 /\ Len(buf) < 8 + 8 * 18) =>
        /\ out.kind = "ok"
        /\ out.message.type = "Keepalive"
        /\ \A i \in 1..8 :
             out.message.peers[i] =
                 IF Len(buf) >= 8 + 18 * i THEN WirePeer(buf, i) ELSE AllZeroPeer

\* The datagram ends one byte into the port of the second entry: the first
\* entry is returned, the second, whose address was whole, is all-zero.
C5_Witness ==
    /\ pc = "decoded" /\ HeaderPasses(buf) /\ buf[6] = 2
    /\ Len(buf) = 8 + 18 + 17
    /\ buf[27] /= 0
    /\ out.kind = "ok"
    /\ out.message.peers[1] = WirePeer(buf, 1)
    /\ out.message.peers[1] /= AllZeroPeer
    /\ out.message.peers[2] = AllZeroPeer

\* C6: a datagram whose message-type byte is 6, 7 or 8 never decodes to a
\* message, whatever else it holds; when the rest of the header passes, the
\* error is BootstrapOverUnsupportedTransport.
C6_BootstrapRejected ==
    (pc = "decoded" /\ Len(buf) >= 6 /\ buf[6] \in {6, 7, 8}) =>
        /\ out.kind = "err"
        /\ HeaderPasses(buf) => out.err = BootstrapOverUnsupportedTransport

\* A handshake with both parts, re-typed 8 on the wire, has been refused.
C6_Witness ==
    /\ pc = "decoded"
    /\ HeaderPasses(buf) /\ buf[6] = 8 /\ buf[7] = 3 /\ Len(buf) > 8
    /\ out.kind = "err" /\ out.err = BootstrapOverUnsupportedTransport

HasBlock(m) == m.type \in {"Publish", "ConfirmReq", "ConfirmAck"}

BlockOf(m) == IF m.type = "ConfirmAck" THEN m.vote.block ELSE m.block

\* The bytes of a value of n limbs, least significant byte first.
BytesLE(w, n) ==
    [i \in 1..(2 * n) |-> IF i % 2 = 1 THEN w[(i + 1) \div 2] % 256
                          ELSE w[i \div 2] \div 256]

Reversed(b) == [i \in 1..Len(b) |-> b[Len(b) + 1 - i]]

\* The length on the wire of a block, and where in it the balance starts.
WireSize(blk) ==
    CASE blk.inner.type = "Send" -> 152
      [] blk.inner.type = "Receive" -> 136
      [] blk.inner.type = "Open" -> 168
      [] blk.inner.type = "Change" -> 136
      [] blk.inner.type = "State" -> 216

BalanceOffset(blk) == IF blk.inner.type = "Send" THEN 64 ELSE 96

\* The block blk lies in b and ends at byte e: its last 8 bytes are the work,
\* big-endian for State and little-endian otherwise, and the 16 bytes of a
\* Send or State balance are big-endian.
EndianLaw(b, e, blk) ==
    /\ SubSeq(b, e - 7, e) =
         (IF blk.inner.type = "State" THEN Reversed(BytesLE(blk.header.work, 4))
          ELSE BytesLE(blk.header.work, 4))
    /\ blk.inner.type \in {"Send", "State"} =>
         LET s == e - WireSize(blk) + BalanceOffset(blk) IN
         SubSeq(b, s + 1, s + 16) = Reversed(BytesLE(blk.inner.balance, 8))
    /\ blk.header.work = <<1, 0, 0, 0>> =>
         SubSeq(b, e - 7, e) =
           (IF blk.inner.type = "State" THEN <<0, 0, 0, 0, 0, 0, 0, 1>>
            ELSE <<1, 0, 0, 0, 0, 0, 0, 0>>)

\* C7: write_block ends a block with the work big-endian for State and
\* little-endian for Send, Receive, Open and Change, and writes a balance
\* big-endian; read_block reads both the same way.
C7_EndiannessLaw ==
    /\ (pc = "wire" /\ tampers = <<>> /\ HasBlock(msg)) =>
           EndianLaw(buf, Len(buf), BlockOf(msg))
    /\ (pc = "decoded" /\ out.kind = "ok" /\ HasBlock(out.message)) =>
           EndianLaw(buf, out.pos, BlockOf(out.message))

\* A State block and a Send block with work 0x0807060504030201 have gone
\* through encode and decode.
C7_Witness ==
    /\ Untouched /\ out.kind = "ok"
    /\ msg.type = "Publish"
    /\ out.message.block.header.work = <<513, 1027, 1541, 2055>>
    /\ \/ /\ out.message.block.inner.type = "State"
          /\ SubSeq(buf, Len(buf) - 7, Len(buf)) = <<8, 7, 6, 5, 4, 3, 2, 1>>
       \/ /\ out.message.block.inner.type = "Send"
          /\ SubSeq(buf, Len(buf) - 7, Len(buf)) = <<1, 2, 3, 4, 5, 6, 7, 8>>

\* C8: encode sets extensions bit 0 iff the query is present and bit 1 iff
\* the response is, no other bit, and writes 32 bytes for the query and then
\* 32 + 64 for the response; decode reads the query iff bit 0 is set and the
\* response iff bit 1 is set; the four combinations round-trip.
C8_HandshakeFlags ==
    /\ (pc = "wire" /\ tampers = <<>> /\ msg.type = "NodeIdHandshake") =>
           LET q == IF msg.query /= <<>> THEN 1 ELSE 0
               r == IF msg.response /= <<>> THEN 1 ELSE 0
           IN  /\ buf[7] = q + 2 * r
               /\ buf[8] = 0
               /\ Len(buf) = 8 + 32 * q + (32 + 64) * r
               /\ q = 1 => SubSeq(buf, 9, 40) = msg.query[1]
               /\ r = 1 => /\ SubSeq(buf, 9 + 32 * q, 40 + 32 * q) = msg.response[1].pubkey
                           /\ SubSeq(buf, 41 + 32 * q, 104 + 32 * q) =
                                  msg.response[1].signature
    /\ (pc = "decoded" /\ out.kind = "ok" /\ out.message.type = "NodeIdHandshake") =>
           /\ out.message.query /= <<>> <=> buf[7] % 2 = 1
           /\ out.message.response /= <<>> <=> (buf[7] \div 2) % 2 = 1
    /\ (Untouched /\ msg.type = "NodeIdHandshake") =>
           (out.kind = "ok" /\ out.message = msg)

\* A handshake with a response and no query has gone through encode and
\* decode.
C8_Witness ==
    /\ Untouched
    /\ msg.type = "NodeIdHandshake" /\ msg.query = <<>> /\ msg.response /= <<>>
    /\ buf[7] = 2 /\ Len(buf) = 104
    /\ out.kind = "ok" /\ out.message = msg

\* C9: block_type_num maps Send, Receive, Open, Change, State to 2..6;
\* read_block with a type number t of 0..15 fails with UnrecognizedBlockType
\* when t is outside 2..6 and otherwise returns, if anything, a block b with
\* block_type_num(b) = t; the number encode puts in extensions bits 8 to 11
\* is the number decode dispatches on.
C9_BlockTypeBijection ==
    /\ \A blk \in Blocks :
           block_type_num(blk) =
             (CASE blk.inner.type = "Send" -> 2 [] blk.inner.type = "Receive" -> 3
                [] blk.inner.type = "Open" -> 4 [] blk.inner.type = "Change" -> 5
                [] blk.inner.type = "State" -> 6)
    /\ pc = "wire" =>
           \A t \in 0..15 :
               LET r == read_block(buf, 8, t) IN
               /\ t \notin 2..6 => (~r.ok /\ r.err = UnrecognizedBlockType)
               /\ r.ok => block_type_num(r.block) = t
    /\ (pc = "wire" /\ tampers = <<>> /\ HasBlock(msg)) =>
           (buf[7] = 0 /\ buf[8] = block_type_num(BlockOf(msg)))
    /\ (pc = "decoded" /\ out.kind = "ok" /\ HasBlock(out.message)) =>
           block_type_num(BlockOf(out.message)) = buf[8] % 16
    /\ (Untouched /\ HasBlock(msg)) =>
           (out.kind = "ok" /\ BlockOf(out.message).inner.type = BlockOf(msg).inner.type)

\* A State block whose extensions came with bits above bit 11 set has
\* been decoded as type 6.
C9_Witness ==
    /\ pc = "decoded" /\ out.kind = "ok"
    /\ buf[8] = 22
    /\ HasBlock(out.message)
    /\ BlockOf(out.message).inner.type = "State"

\* C10: decode reports the error of the first step that fails, in the order
\* magic, network, the rest of the 8-byte header present, version, message
\* type; it reads no byte of the body before the first four have passed.
C10_HeaderCheckOrder ==
    pc = "decoded" =>
        LET n == Len(buf)
            badMagic == n >= 1 /\ buf[1] /= 82
            badNetwork == n >= 2 /\ buf[2] \notin 65..67
            badVersion == n >= 8 /\ (buf[5] > 16 \/ buf[3] < 1)
            fails(e) == out.kind = "err" /\ out.err = e
        IN  /\ badMagic => fails(InvalidMagic)
            /\ (~badMagic /\ badNetwork) => fails(InvalidNetwork)
            /\ (~badMagic /\ ~badNetwork /\ n < 8) => fails(UnexpectedEof)
            /\ (~badMagic /\ ~badNetwork /\ badVersion) => fails(UnsupportedVersion)
            /\ (HeaderPasses(buf) /\ buf[6] \in {6, 7, 8}) =>
                   fails(BootstrapOverUnsupportedTransport)
            /\ (HeaderPasses(buf) /\ buf[6] \notin {2, 3, 4, 5, 6, 7, 8, 10}) =>
                   fails(UnrecognizedMessageType)
            /\ ~HeaderPasses(buf) => (out.kind = "err" /\ out.pos <= 8)
            /\ out.pos > 8 => HeaderPasses(buf)

\* A datagram with a bad magic and a bad network byte has reported
\* InvalidMagic.
C10_Witness ==
    /\ pc = "decoded"
    /\ Len(buf) >= 8 /\ buf[1] = 88 /\ buf[2] = 68
    /\ out.kind = "err" /\ out.err = InvalidMagic /\ out.pos = 1

====
